---- MODULE Spec2Model ----
(***************************************************************************)
(* A model of the travel-booking application's control logic:              *)
(*   - flightBookingAssistantFlow: the completion call with its retry loop  *)
(*     and its fixed fallback replies;                                      *)
(*   - POST /api/search-flights: parameter validation, the lookup process,  *)
(*     the promise its events settle and the response built from its output;*)
(*   - parseFlexibleDate and the date-range splitting of handleSendMessage; *)
(*   - the ranking of offers in FlightResultsView.                          *)
(* Strings whose content the code inspects (dates, durations) are sequences *)
(* of one-character strings.                                                *)
(***************************************************************************)
EXTENDS Integers, Sequences, FiniteSets, TLC

VARIABLES
    \* flightBookingAssistantFlow
    flowPc,        \* "idle" | "prompt" (awaiting prompt()) | "delay" (awaiting the timer) | "returned"
    attempt,       \* the loop variable of the retry loop
    lastError,     \* the last error caught, or NoError
    flowTrace,     \* what the invocation did so far: prompt calls, errors logged, timers set
    flowResult,    \* the value the flow returned, or NoResult
    \* POST /api/search-flights
    routePc,       \* "idle" | "spawned" (awaiting the promise) | "responded"
    reqBody,       \* the request body
    spawnCount,    \* how many times this request started the lookup process
    child,         \* the child process: whether it could be spawned, what it writes, its exit code
    procEvents,    \* the events the child process will still emit, in order
    stdoutBuf,     \* let stdout: the chunks received so far
    stderrBuf,     \* let stderr: the chunks received so far
    promise,       \* the promise of line 32: pending, resolved or rejected
    httpResponse,  \* the response sent, or NoResponse
    \* parseFlexibleDate and the date resolution of handleSendMessage
    datePc,        \* "idle" | "parsed" | "reparsed" | "resolved"
    currentYear,   \* new Date().getFullYear()
    dateShape,     \* how the dates expression was composed (the input's description)
    dates,         \* the dates expression, as characters
    genericDate,   \* what new Date(str) yields for this run, when the engine accepts the string
    parsedOnce,    \* parseFlexibleDate(dates)
    parsedTwice,   \* parseFlexibleDate(parseFlexibleDate(dates))
    departureDate, \* let departureDate
    returnDate,    \* let returnDate
    \* FlightResultsView
    flights,       \* useState flights
    activeTab,     \* useState activeTab
    sortedFlights, \* useMemo sortedFlights
    viewLoading,   \* useState loading of FlightResultsView
    \* AIChat and the FlightResultsView it renders
    initialQuery,          \* the initialQuery prop: Absent, or a query
    processedInitialQuery, \* useRef processedInitialQuery
    effectDue,             \* the effect of lines 438-443 has yet to run for this initialQuery
    input,                 \* useState input: what stands in the text field
    loading,               \* useState loading
    messages,              \* useState messages: the transcript
    trips,                 \* the handleSendMessage round-trips started so far, each with its position
    showViewFlightsButton, \* useState showViewFlightsButton
    showFlightResults,     \* useState showFlightResults
    flightQuery,           \* useState flightQuery: 0 for null, else the round-trip that set it
    realFlights,           \* useState realFlights
    searchCriteria,        \* useState searchCriteria
    lookupLog,             \* the requests sent to /api/search-flights, in order
    completionLog,         \* the calls of flightBookingAssistant, in order
    resultsPc,             \* the rendered FlightResultsView: "unmounted" | "parsing" | "fetching" | "shown"
    \* the lookup request handleSendMessage builds from completed slots
    requestPc,             \* "idle" | "built"
    slots,                 \* response.flightDetails
    genericOfSlots,        \* what new Date(str) yields while the request is built
    searchRequest          \* the body of the request (lines 564-571)

flowVars == <<flowPc, attempt, lastError, flowTrace, flowResult>>
routeVars == <<routePc, reqBody, spawnCount, child, procEvents, stdoutBuf, stderrBuf, promise, httpResponse>>
dateVars == <<datePc, currentYear, dateShape, dates, genericDate, parsedOnce, parsedTwice, departureDate, returnDate>>
rankVars == <<flights, activeTab, sortedFlights, viewLoading>>
chatVars == <<initialQuery, processedInitialQuery, effectDue, input, loading, messages, trips,
              showViewFlightsButton, showFlightResults, flightQuery, realFlights, searchCriteria,
              lookupLog, completionLog, resultsPc>>
requestVars == <<requestPc, slots, genericOfSlots, searchRequest>>
vars == <<flowVars, routeVars, dateVars, rankVars, chatVars, requestVars>>

----------------------------------------------------------------------------
(* flightBookingAssistantFlow *)

Absent == "absent"
\* let lastError before any catch: undefined
NoError == [status |-> Absent, message |-> << >>, thrown |-> FALSE]
NoResult == [kind |-> "none", isFlightDetailsComplete |-> FALSE]

\* error?.status values of the errors prompt() is seen to throw, written as text;
\* Absent: the error has no status field
Statuses == {Absent, "401", "403", "429", "500", "503"}

\* error?.message values, as words; << >>: no message field, or an empty one
Messages == {<< >>,
             <<"fetch", "failed">>,
             <<"model", "is", "overloaded">>,
             <<"quota", "exceeded">>,
             <<"quota", "exceeded", "model", "overloaded">>}

Errors == [status : Statuses, message : Messages, thrown : {TRUE}]

\* error?.message?.includes(word)
Includes(message, word) ==
    \E i \in 1..Len(message) : message[i] = word

maxRetries == 2
BaseDelayMs == 1000

\* the check of line 111 with the status 403 left out
NoRetryStatusWithout403(e) == e.status = "429" \/ e.status = "401"

\* line 111: error?.status === 429 || error?.status === 401 || error?.status === 403
NoRetryStatus(e) == e.status = "429" \/ e.status = "401" \/ e.status = "403"

\* lines 116 and 124: error?.status === 503 || error?.message?.includes('overloaded')
IsOverloaded(e) == e.status = "503" \/ Includes(e.message, "overloaded")

\* line 131: lastError?.status === 429 || lastError?.message?.includes('quota')
IsQuota(e) == e.status = "429" \/ Includes(e.message, "quota")

\* line 138: lastError?.status === 401 || lastError?.status === 403
IsAuth(e) == e.status = "401" \/ e.status = "403"

\* the replies of lines 123-149 with the quota check put before the overload check
FallbackReplyQuotaFirst(e) ==
    IF IsQuota(e) THEN [kind |-> "quota", isFlightDetailsComplete |-> FALSE]
    ELSE IF IsOverloaded(e) THEN [kind |-> "overloaded", isFlightDetailsComplete |-> FALSE]
    ELSE IF IsAuth(e) THEN [kind |-> "auth", isFlightDetailsComplete |-> FALSE]
    ELSE [kind |-> "other", isFlightDetailsComplete |-> FALSE]

\* lines 123-149: the reply returned once the loop is left without an output
FallbackReply(e) ==
    IF IsOverloaded(e) THEN [kind |-> "overloaded", isFlightDetailsComplete |-> FALSE]
    ELSE IF IsQuota(e) THEN [kind |-> "quota", isFlightDetailsComplete |-> FALSE]
    ELSE IF IsAuth(e) THEN [kind |-> "auth", isFlightDetailsComplete |-> FALSE]
    ELSE [kind |-> "other", isFlightDetailsComplete |-> FALSE]

CallEvent(n) == [ev |-> "call", attempt |-> n]
ErrorEvent(n, e) == [ev |-> "error", attempt |-> n, error |-> e]
DelayEvent(n) == [ev |-> "delay", attempt |-> n, ms |-> n * BaseDelayMs]

\* line 116: whether the loop waits before its next iteration
WaitsBeforeRetry(n, e) == n < maxRetries /\ IsOverloaded(e)

\* the flow is invoked: the loop starts at attempt 1 and issues the first prompt call
FlowInvoke ==
    /\ flowPc \in {"idle", "returned"}
    /\ flowPc' = "prompt"
    /\ attempt' = 1
    /\ lastError' = NoError
    /\ flowTrace' = <<CallEvent(1)>>
    /\ flowResult' = NoResult
    /\ UNCHANGED <<routeVars, dateVars, rankVars, chatVars, requestVars>>

\* line 99-105: the prompt call resolves and its output is returned
PromptResolves(complete) ==
    /\ flowPc = "prompt"
    /\ flowPc' = "returned"
    /\ flowResult' = [kind |-> "output", isFlightDetailsComplete |-> complete]
    /\ UNCHANGED <<attempt, lastError, flowTrace>>
    /\ UNCHANGED <<routeVars, dateVars, rankVars, chatVars, requestVars>>

\* the loop's next iteration after attempt n failed with e: the next prompt call, or
\* the fallback reply when the loop is over
NextIteration(n, e, trace) ==
    IF n + 1 <= maxRetries
    THEN /\ attempt' = n + 1
         /\ flowPc' = "prompt"
         /\ flowTrace' = Append(trace, CallEvent(n + 1))
         /\ flowResult' = flowResult
    ELSE /\ attempt' = n + 1
         /\ flowPc' = "returned"
         /\ flowTrace' = trace
         /\ flowResult' = FallbackReply(e)

\* lines 106-120: the prompt call rejects with e
PromptRejects(e) ==
    /\ flowPc = "prompt"
    /\ lastError' = e
    /\ LET logged == Append(flowTrace, ErrorEvent(attempt, e)) IN
       IF NoRetryStatus(e)
       THEN \* break
            /\ attempt' = attempt
            /\ flowPc' = "returned"
            /\ flowTrace' = logged
            /\ flowResult' = FallbackReply(e)
       ELSE IF WaitsBeforeRetry(attempt, e)
       THEN /\ attempt' = attempt
            /\ flowPc' = "delay"
            /\ flowTrace' = Append(logged, DelayEvent(attempt))
            /\ flowResult' = flowResult
       ELSE NextIteration(attempt, e, logged)
    /\ UNCHANGED <<routeVars, dateVars, rankVars, chatVars, requestVars>>

\* line 118: the timer fires and the loop goes on
DelayElapsed ==
    /\ flowPc = "delay"
    /\ NextIteration(attempt, lastError, flowTrace)
    /\ UNCHANGED lastError
    /\ UNCHANGED <<routeVars, dateVars, rankVars, chatVars, requestVars>>

FlowNext ==
    \/ FlowInvoke
    \/ \E complete \in BOOLEAN : PromptResolves(complete)
    \/ \E e \in Errors : PromptRejects(e)
    \/ DelayElapsed

----------------------------------------------------------------------------
(* Offers: what the lookup process returns and FlightResultsView ranks.   *)
(* Of an offer the model keeps the fields the code reads.                  *)

Offer(id, price, duration) == [id |-> id, price |-> price, duration |-> duration]

Dur10h00m == <<"1", "0", "h", " ", "0", "0", "m">>
Dur8h00m == <<"8", "h", " ", "0", "0", "m">>
Dur8h20m == <<"8", "h", " ", "2", "0", "m">>
Dur14h30m == <<"1", "4", "h", " ", "3", "0", "m">>
Dur5h == <<"5", "h">>
Dur45m == <<"4", "5", "m">>

\* the offers a lookup may return; equal prices, equal durations and equal
\* price / 2 + minutes occur among them, and one price is odd
OfferPool == <<Offer("A", 600, Dur10h00m),
               Offer("B", 600, Dur8h00m),
               Offer("C", 801, Dur8h00m),
               Offer("D", 800, Dur8h20m),
               Offer("E", 802, Dur5h),
               Offer("F", 300, Dur45m)>>

----------------------------------------------------------------------------
(* POST /api/search-flights *)


\* a value of a body field: absent, or a JSON string or number, written as text
Field(t, v) == [t |-> t, v |-> v]
NoField == Field("absent", "")
\* the check of line 12 taking only a missing field for missing
FalsyOnlyAbsent(f) == f.t = "absent"
\* !x for a body field
Falsy(f) == f.t = "absent" \/ (f.t = "string" /\ f.v = "") \/ (f.t = "number" /\ f.v = "0")

OriginValues == {NoField, Field("string", ""), Field("string", "Glasgow"), Field("number", "7")}
DestinationValues == {NoField, Field("string", ""), Field("string", "Chennai")}
DepartureValues == {NoField, Field("string", ""), Field("string", "2025-09-19")}

\* request bodies: JSON objects, and a body request.json() or the destructuring
\* of line 10 throws on (not JSON, or null)
Bodies == [parses : {TRUE}, origin : OriginValues, destination : DestinationValues,
           departureDate : DepartureValues]
          \cup {[parses |-> FALSE, origin |-> NoField, destination |-> NoField,
                 departureDate |-> NoField]}

\* search_params: { origin, destination, departureDate, returnDate, passengers } of the
\* request (lines 79 and 112); `by` tells whose search_params a response carries
SearchParams(body) ==
    [by |-> "request", origin |-> body.origin, destination |-> body.destination,
     departureDate |-> body.departureDate]
NoSearchParams ==
    [by |-> Absent, origin |-> NoField, destination |-> NoField, departureDate |-> NoField]
ProcessSearchParams ==
    [by |-> "process", origin |-> NoField, destination |-> NoField, departureDate |-> NoField]

\* a flights property: t is the type of its value ("absent" when there is none),
\* items the elements of a list
NoFlights == [t |-> "absent", items |-> << >>]
FlightsList(items) == [t |-> "array", items |-> items]
FlightsOther(t) == [t |-> t, items |-> << >>]

\* a response: its status, the properties of its body (keys) and their values
NoResponse == [status |-> 0, keys |-> {}, flights |-> NoFlights, total_results |-> 0,
               search_params |-> NoSearchParams, error |-> Absent]

\* What the lookup process writes to stdout, by what JSON.parse makes of it:
\* json: whether the text parses; t: the type of the parsed value; items: an
\* array's elements; flights: the value's flights property ("absent" when it has
\* none); keys: an object's other properties.
Doc(json, t, items, fl, keys) ==
    [json |-> json, t |-> t, items |-> items, flights |-> fl, keys |-> keys]

MaxOffers == 2
OfferLists == UNION {[1..n -> {OfferPool[i] : i \in 1..MaxOffers}] : n \in 0..MaxOffers}

ProcessDocs ==
    {Doc(FALSE, "text", << >>, NoFlights, {})}
    \cup {Doc(TRUE, t, << >>, NoFlights, {}) : t \in {"null", "number", "string"}}
    \cup {Doc(TRUE, "array", l, NoFlights, {}) : l \in OfferLists}
    \cup {Doc(TRUE, "object", << >>, f, {}) :
            f \in {NoFlights, FlightsOther("string"), FlightsOther("null")}}
    \cup {Doc(TRUE, "object", << >>, FlightsList(l), k) :
            l \in OfferLists, k \in {{}, {"total_results", "search_params"}}}

\* line 38: the text the first 'error' listener resolves with
UnavailableDoc == Doc(TRUE, "object", << >>, FlightsList(<< >>), {"error"})

\* a piece of text: part `part` of the `of` pieces of `doc`
Chunk(doc, part, of) == [doc |-> doc, part |-> part, of |-> of]
MaxChunks == 2

\* the diagnostics the process may write to stderr, as chunks
StderrTexts == {<< >>, <<"Traceback">>}
ExitCodes == {0, 1}
\* the exit code 'close' reports when the process could not be spawned
SpawnFailedCode == -2

\* the events of a child process that started: its output, then 'close'
RunEvents(doc, n, err, code) ==
    [i \in 1..n |-> [type |-> "stdout", chunk |-> Chunk(doc, i, n), text |-> "", code |-> 0]]
    \o [i \in 1..Len(err) |-> [type |-> "stderr", chunk |-> Chunk(doc, 0, 0), text |-> err[i], code |-> 0]]
    \o <<[type |-> "close", chunk |-> Chunk(doc, 0, 0), text |-> "", code |-> code]>>

\* the events of a child process that could not be spawned: 'error', then 'close'
SpawnFailedEvents ==
    <<[type |-> "error", chunk |-> Chunk(UnavailableDoc, 0, 0), text |-> "ENOENT", code |-> 0],
      [type |-> "close", chunk |-> Chunk(UnavailableDoc, 0, 0), text |-> "", code |-> SpawnFailedCode]>>

\* a child process: spawned or not, the document it writes to stdout in `chunks`
\* pieces (none: it writes nothing), what it writes to stderr, its exit code
Child(spawned, doc, n, err, code) ==
    [spawned |-> spawned, doc |-> doc, chunks |-> n, stderr |-> err, code |-> code]
NoChild == Child(FALSE, UnavailableDoc, 0, << >>, 0)
Unspawned == Child(FALSE, UnavailableDoc, 0, << >>, SpawnFailedCode)
Children ==
    {Unspawned}
    \cup {Child(TRUE, doc, n, err, code) :
            doc \in ProcessDocs, n \in 1..MaxChunks, err \in StderrTexts, code \in ExitCodes}
    \cup {Child(TRUE, UnavailableDoc, 0, err, code) : err \in StderrTexts, code \in ExitCodes}

\* the events a child process emits, in order
EventsOf(c) ==
    IF c.spawned THEN RunEvents(c.doc, c.chunks, c.stderr, c.code) ELSE SpawnFailedEvents

Pending == [state |-> "pending", text |-> << >>, error |-> "", stderr |-> << >>]
\* resolve(text) and reject(error): a promise settles once, later calls change nothing
Resolve(p, text) ==
    IF p.state = "pending"
    THEN [state |-> "resolved", text |-> text, error |-> "", stderr |-> << >>]
    ELSE p
Reject(p, error, stderr) ==
    IF p.state = "pending"
    THEN [state |-> "rejected", text |-> << >>, error |-> error, stderr |-> stderr]
    ELSE p

\* the listeners of 'error' run with the one of lines 59-61 first
OnErrorRejectFirst(p) == Resolve(Reject(p, "spawn", << >>), <<Chunk(UnavailableDoc, 1, 1)>>)

\* lines 36-39 and 59-61: the listeners of 'error', run in the order they were added
OnError(p) == Reject(Resolve(p, <<Chunk(UnavailableDoc, 1, 1)>>), "spawn", << >>)

\* the listener of 'close' without the test of line 52
OnCloseIgnoringCode(p, code, out, err) == Resolve(p, out)

\* lines 51-57: the listener of 'close'
OnClose(p, code, out, err) ==
    IF code # 0 THEN Reject(p, "exit", err) ELSE Resolve(p, out)

\* JSON.parse(text): the document the pieces make up, when they are all of them
Complete(text) ==
    /\ Len(text) >= 1
    /\ Len(text) = text[1].of
    /\ \A i \in 1..Len(text) : text[i].doc = text[1].doc /\ text[i].part = i
JsonParse(text) ==
    IF Complete(text) THEN text[1].doc ELSE Doc(FALSE, "text", << >>, NoFlights, {})

\* lines 85-114: the demo result
DemoOffer == Offer("api_1", 650, Dur14h30m)
DemoResponse(body) ==
    [status |-> 200, keys |-> {"flights", "total_results", "search_params", "note"},
     flights |-> FlightsList(<<DemoOffer>>), total_results |-> Len(<<DemoOffer>>),
     search_params |-> SearchParams(body), error |-> Absent]

\* lines 119-124
InternalError ==
    [status |-> 500, keys |-> {"error", "flights"}, flights |-> FlightsList(<< >>),
     total_results |-> 0,
     search_params |-> NoSearchParams, error |-> "Internal server error"]

\* lines 13-16
MissingParameters ==
    [status |-> 400, keys |-> {"error"}, flights |-> NoFlights, total_results |-> 0,
     search_params |-> NoSearchParams,
     error |-> "Missing required parameters: origin, destination, departureDate"]

\* lines 76-80: the parsed value re-wrapped
Rewrapped(doc, body) ==
    [status |-> 200, keys |-> {"flights", "total_results", "search_params"},
     flights |-> FlightsList(IF doc.t = "array" THEN doc.items ELSE << >>),
     total_results |-> IF doc.t = "array" THEN Len(doc.items) ELSE 0,
     search_params |-> SearchParams(body), error |-> Absent]

\* line 117 for a parsed object whose flights is a list: the object as it is
PassedThrough(doc) ==
    [status |-> 200, keys |-> doc.keys \cup {"flights"}, flights |-> doc.flights,
     total_results |-> IF "total_results" \in doc.keys THEN Len(doc.flights.items) ELSE 0,
     search_params |-> IF "search_params" \in doc.keys THEN ProcessSearchParams ELSE NoSearchParams,
     error |-> IF "error" \in doc.keys THEN "Python environment not available" ELSE Absent]

\* the check of line 75 without Array.isArray
LacksFlightsListNoArrayCheck(doc) == doc.flights.t = "absent"

\* line 75: !finalResults.flights || !Array.isArray(finalResults.flights)
LacksFlightsList(doc) == doc.flights.t # "array"

\* lines 68-117: the response built from the text the promise resolved with
ResponseFor(text, body) ==
    LET doc == JsonParse(text) IN
    IF ~doc.json \/ doc.t = "null"
    THEN \* JSON.parse throws, or reading null.flights does: the catch of line 82;
         \* origin.slice and destination.slice throw in it unless both are strings
         IF body.origin.t = "string" /\ body.destination.t = "string"
         THEN DemoResponse(body)
         ELSE InternalError
    ELSE IF LacksFlightsList(doc) THEN Rewrapped(doc, body)
    ELSE PassedThrough(doc)

\* lines 9-17: a request arrives; it is answered at once (400, or 500 when the body
\* cannot be read), or the lookup process is spawned (lines 32-66). The handler
\* keeps nothing from one request to the next, so a behaviour follows one request.
Post(body) ==
    /\ routePc = "idle"
    /\ reqBody' = body
    /\ stdoutBuf' = << >>
    /\ stderrBuf' = << >>
    /\ promise' = Pending
    /\ IF ~body.parses
       THEN /\ routePc' = "responded"
            /\ httpResponse' = InternalError
            /\ spawnCount' = 0
            /\ child' = NoChild
            /\ procEvents' = << >>
       ELSE IF Falsy(body.origin) \/ Falsy(body.destination) \/ Falsy(body.departureDate)
       THEN /\ routePc' = "responded"
            /\ httpResponse' = MissingParameters
            /\ spawnCount' = 0
            /\ child' = NoChild
            /\ procEvents' = << >>
       ELSE /\ routePc' = "spawned"
            /\ httpResponse' = NoResponse
            /\ spawnCount' = 1
            /\ \E c \in Children :
                    /\ child' = c
                    /\ procEvents' = EventsOf(c)
    /\ UNCHANGED <<flowVars, dateVars, rankVars, chatVars, requestVars>>

\* the child process emits its next event and the listeners of lines 36-61 run
ProcEmit ==
    /\ procEvents # << >>
    /\ LET e == Head(procEvents) IN
       /\ procEvents' = Tail(procEvents)
       /\ stdoutBuf' = IF e.type = "stdout" THEN Append(stdoutBuf, e.chunk) ELSE stdoutBuf
       /\ stderrBuf' = IF e.type = "stderr" THEN Append(stderrBuf, e.text) ELSE stderrBuf
       /\ promise' = IF e.type = "error" THEN OnError(promise)
                     ELSE IF e.type = "close" THEN OnClose(promise, e.code, stdoutBuf, stderrBuf)
                     ELSE promise
    /\ UNCHANGED <<routePc, reqBody, spawnCount, child, httpResponse>>
    /\ UNCHANGED <<flowVars, dateVars, rankVars, chatVars, requestVars>>

\* lines 68-125: the promise is settled and the handler goes on to its response
Respond ==
    /\ routePc = "spawned"
    /\ promise.state # "pending"
    /\ routePc' = "responded"
    /\ httpResponse' = IF promise.state = "rejected" THEN InternalError
                       ELSE ResponseFor(promise.text, reqBody)
    /\ UNCHANGED <<reqBody, spawnCount, child, procEvents, stdoutBuf, stderrBuf, promise>>
    /\ UNCHANGED <<flowVars, dateVars, rankVars, chatVars, requestVars>>

RouteNext ==
    \/ /\ routePc = "idle"
       /\ \E body \in Bodies : Post(body)
    \/ ProcEmit
    \/ Respond

----------------------------------------------------------------------------
(* Text: a string is the sequence of its characters *)

Digits == <<"0", "1", "2", "3", "4", "5", "6", "7", "8", "9">>
\* \d
IsDigit(c) == \E i \in 1..Len(Digits) : Digits[i] = c
DigitValue(c) == (CHOOSE i \in 1..Len(Digits) : Digits[i] = c) - 1
\* \s
IsSpace(c) == c = " "

UpperAlpha == <<"A", "B", "C", "D", "E", "F", "G", "H", "I", "J", "K", "L", "M",
                "N", "O", "P", "Q", "R", "S", "T", "U", "V", "W", "X", "Y", "Z">>
LowerAlpha == <<"a", "b", "c", "d", "e", "f", "g", "h", "i", "j", "k", "l", "m",
                "n", "o", "p", "q", "r", "s", "t", "u", "v", "w", "x", "y", "z">>
IsLetter(c) == \E i \in 1..Len(LowerAlpha) : LowerAlpha[i] = c \/ UpperAlpha[i] = c

LowerChar(c) ==
    IF \E i \in 1..Len(UpperAlpha) : UpperAlpha[i] = c
    THEN LowerAlpha[CHOOSE i \in 1..Len(UpperAlpha) : UpperAlpha[i] = c]
    ELSE c
UpperChar(c) ==
    IF \E i \in 1..Len(LowerAlpha) : LowerAlpha[i] = c
    THEN UpperAlpha[CHOOSE i \in 1..Len(LowerAlpha) : LowerAlpha[i] = c]
    ELSE c
\* String.prototype.toLowerCase
ToLowerCase(s) == [i \in 1..Len(s) |-> LowerChar(s[i])]
ToUpperCase(s) == [i \in 1..Len(s) |-> UpperChar(s[i])]

\* how many characters of s, from position i on, satisfy the test in a row
RECURSIVE SpacesFrom(_, _)
SpacesFrom(s, i) == IF i <= Len(s) /\ IsSpace(s[i]) THEN 1 + SpacesFrom(s, i + 1) ELSE 0
RECURSIVE DigitsFrom(_, _)
DigitsFrom(s, i) == IF i <= Len(s) /\ IsDigit(s[i]) THEN 1 + DigitsFrom(s, i + 1) ELSE 0
RECURSIVE SpacesBefore(_, _)
SpacesBefore(s, i) == IF i >= 1 /\ IsSpace(s[i]) THEN 1 + SpacesBefore(s, i - 1) ELSE 0

\* String.prototype.trim
Trim(s) ==
    LET lead == SpacesFrom(s, 1) IN
    IF lead = Len(s) THEN << >>
    ELSE SubSeq(s, lead + 1, Len(s) - SpacesBefore(s, Len(s)))

\* whether sub occurs in s at position i
OccursAt(s, sub, i) ==
    /\ i + Len(sub) - 1 <= Len(s)
    /\ \A k \in 1..Len(sub) : s[i + k - 1] = sub[k]
\* String.prototype.includes
Contains(s, sub) == \E i \in 1..Len(s) : OccursAt(s, sub, i)

\* the decimal number a run of digits writes
RECURSIVE NumberOf(_)
NumberOf(ds) ==
    IF ds = << >> THEN 0
    ELSE 10 * NumberOf(SubSeq(ds, 1, Len(ds) - 1)) + DigitValue(ds[Len(ds)])

\* the day of line 514 without padStart
PadStartNone(s) == s

\* String.prototype.padStart(2, '0')
PadStart2(s) == IF Len(s) >= 2 THEN s ELSE IF Len(s) = 1 THEN <<"0">> \o s ELSE <<"0", "0">>

\* a number written in decimal with at least `width` digits
RECURSIVE Decimal(_, _)
Decimal(n, width) ==
    IF n < 10 /\ width <= 1 THEN <<Digits[n + 1]>>
    ELSE Decimal(n \div 10, width - 1) \o <<Digits[(n % 10) + 1]>>

----------------------------------------------------------------------------
(* parseFlexibleDate *)

\* the alternatives of the regular expression of line 510, in its order
MonthNames == <<
    <<"j", "a", "n">>, <<"j", "a", "n", "u", "a", "r", "y">>,
    <<"f", "e", "b">>, <<"f", "e", "b", "r", "u", "a", "r", "y">>,
    <<"m", "a", "r">>, <<"m", "a", "r", "c", "h">>,
    <<"a", "p", "r">>, <<"a", "p", "r", "i", "l">>,
    <<"m", "a", "y">>,
    <<"j", "u", "n">>, <<"j", "u", "n", "e">>,
    <<"j", "u", "l">>, <<"j", "u", "l", "y">>,
    <<"a", "u", "g">>, <<"a", "u", "g", "u", "s", "t">>,
    <<"s", "e", "p">>, <<"s", "e", "p", "t", "e", "m", "b", "e", "r">>,
    <<"o", "c", "t">>, <<"o", "c", "t", "o", "b", "e", "r">>,
    <<"n", "o", "v">>, <<"n", "o", "v", "e", "m", "b", "e", "r">>,
    <<"d", "e", "c">>, <<"d", "e", "c", "e", "m", "b", "e", "r">> >>

\* monthMap of lines 494-507, by the position of the name in MonthNames
monthMap == <<
    <<"0", "1">>, <<"0", "1">>, <<"0", "2">>, <<"0", "2">>, <<"0", "3">>, <<"0", "3">>,
    <<"0", "4">>, <<"0", "4">>, <<"0", "5">>, <<"0", "6">>, <<"0", "6">>,
    <<"0", "7">>, <<"0", "7">>, <<"0", "8">>, <<"0", "8">>, <<"0", "9">>, <<"0", "9">>,
    <<"1", "0">>, <<"1", "0">>, <<"1", "1">>, <<"1", "1">>, <<"1", "2">>, <<"1", "2">> >>

\* (st|nd|rd|th)
OrdinalSuffixes == {<<"s", "t">>, <<"n", "d">>, <<"r", "d">>, <<"t", "h">>}

\* the test of line 489 with slashes for hyphens
IsIsoFormatSlashes(s) ==
    /\ Len(s) = 10
    /\ \A i \in {1, 2, 3, 4, 6, 7, 9, 10} : IsDigit(s[i])
    /\ s[5] = "/"
    /\ s[8] = "/"

\* line 489: /^\d{4}-\d{2}-\d{2}$/.test(cleanStr)
IsIsoFormat(s) ==
    /\ Len(s) = 10
    /\ \A i \in {1, 2, 3, 4, 6, 7, 9, 10} : IsDigit(s[i])
    /\ s[5] = "-"
    /\ s[8] = "-"

\* \s*(\d{1,2})(st|nd|rd|th)?$ from position i of s: the digits matched, << >> if none
DayMatchFrom(s, i) ==
    LET d == i + SpacesFrom(s, i)
        n == DigitsFrom(s, d)
        rest == SubSeq(s, d + n, Len(s))
    IN IF n \in {1, 2} /\ (rest = << >> \/ rest \in OrdinalSuffixes)
       THEN SubSeq(s, d, d + n - 1)
       ELSE << >>

\* the alternatives of the month group with which the whole expression matches s
MonthMatches(s) ==
    {m \in 1..Len(MonthNames) :
        /\ OccursAt(s, MonthNames[m], 1)
        /\ DayMatchFrom(s, Len(MonthNames[m]) + 1) # << >>}

\* what new Date(str) yields: engines differ on strings that are not in the ISO
\* format, so where a string may be read as a date the outcome is the run's
\* genericDate, any valid date or none. A string with no digit holds no date,
\* and a number followed at once by a word that is no keyword of a date, as in
\* '25th', is rejected; the expressions below where a letter follows a digit
\* are of that kind.
InvalidDate == [valid |-> FALSE, y |-> 0, m |-> 0, d |-> 0]
MayBeDate(s) ==
    /\ \E i \in 1..Len(s) : IsDigit(s[i])
    /\ ~ \E i \in 1..(Len(s) - 1) : IsDigit(s[i]) /\ IsLetter(s[i + 1])
NewDate(s, generic) == IF MayBeDate(s) THEN generic ELSE InvalidDate

\* date.toISOString().split('T')[0], for the years 0 to 9999
IsoString(date) == Decimal(date.y, 4) \o <<"-">> \o Decimal(date.m, 2) \o <<"-">> \o Decimal(date.d, 2)

\* lines 483-531
parseFlexibleDate(dateStr, year, generic) ==
    LET cleanStr == Trim(ToLowerCase(dateStr)) IN
    IF IsIsoFormat(cleanStr) THEN cleanStr
    ELSE IF MonthMatches(cleanStr) # {}
    THEN LET m == CHOOSE m \in MonthMatches(cleanStr) :
                      \A o \in MonthMatches(cleanStr) : m <= o
             day == PadStart2(DayMatchFrom(cleanStr, Len(MonthNames[m]) + 1))
         IN Decimal(year, 1) \o <<"-">> \o monthMap[m] \o <<"-">> \o day
    ELSE IF NewDate(dateStr, generic).valid THEN IsoString(NewDate(dateStr, generic))
    ELSE dateStr

----------------------------------------------------------------------------
(* The date resolution of handleSendMessage, lines 533-546 *)

ToWord == <<"t", "o">>
ThroughWord == <<"t", "h", "r", "o", "u", "g", "h">>
Hyphen == <<"-">>

\* /\s+(?:to|through)\s+|\s*-\s*/ tried at position q of s: the position after
\* the match, 0 when there is none
SeparatorEnd(s, q) ==
    LET lead == SpacesFrom(s, q)
        w == q + lead
        afterTo == w + Len(ToWord)
        afterThrough == w + Len(ThroughWord)
    IN IF lead >= 1 /\ OccursAt(s, ToWord, w) /\ SpacesFrom(s, afterTo) >= 1
       THEN afterTo + SpacesFrom(s, afterTo)
       ELSE IF lead >= 1 /\ OccursAt(s, ThroughWord, w) /\ SpacesFrom(s, afterThrough) >= 1
       THEN afterThrough + SpacesFrom(s, afterThrough)
       ELSE IF OccursAt(s, Hyphen, w)
       THEN w + 1 + SpacesFrom(s, w + 1)
       ELSE 0

\* String.prototype.split with that expression: the pieces of s from position p
\* on, the search for the next separator being at q
RECURSIVE SplitFrom(_, _, _)
SplitFrom(s, p, q) ==
    IF q > Len(s) THEN <<SubSeq(s, p, Len(s))>>
    ELSE IF SeparatorEnd(s, q) = 0 THEN SplitFrom(s, p, q + 1)
    ELSE <<SubSeq(s, p, q - 1)>> \o SplitFrom(s, SeparatorEnd(s, q), SeparatorEnd(s, q))
SplitDates(s) == SplitFrom(s, 1, 1)

\* line 537
HasConnector(s) ==
    \/ Contains(s, <<" ", "t", "o", " ">>)
    \/ Contains(s, <<" ", "t", "h", "r", "o", "u", "g", "h", " ">>)
    \/ Contains(s, Hyphen)

\* let returnDate = null
NullDate == <<"null">>

\* lines 534-546: departureDate
ResolveDeparture(s, year, generic) ==
    IF HasConnector(s)
    THEN IF Len(SplitDates(s)) = 2
         THEN parseFlexibleDate(Trim(SplitDates(s)[1]), year, generic)
         ELSE s
    ELSE parseFlexibleDate(s, year, generic)

\* lines 533-546: returnDate
ResolveReturn(s, year, generic) ==
    IF HasConnector(s) /\ Len(SplitDates(s)) = 2
    THEN parseFlexibleDate(Trim(SplitDates(s)[2]), year, generic)
    ELSE NullDate

----------------------------------------------------------------------------
(* The dates expressions the completion service may return in flightDetails *)

Cases == {"lower", "capital", "upper"}
WithCase(name, c) ==
    IF c = "upper" THEN ToUpperCase(name)
    ELSE IF c = "capital" THEN <<UpperChar(name[1])>> \o SubSeq(name, 2, Len(name))
    ELSE name

Spaces(n) == [i \in 1..n |-> " "]
\* the most spaces between a month name and its day
MaxSep == 1

DayTexts == {<<"1">>, <<"9">>, <<"0", "2">>, <<"2", "5">>, <<"3", "0">>, <<"3", "1">>,
             <<"0", "0">>, <<"9", "9">>}

\* the month each alternative of MonthNames names
MonthNumber == <<1, 1, 2, 2, 3, 3, 4, 4, 5, 6, 6, 7, 7, 8, 8, 9, 9, 10, 10, 11, 11, 12, 12>>

\* an input: its text, and what it was made of (month and day are 0 unless it
\* is a month name with a day)
Input(kind, month, day, text) == [kind |-> kind, month |-> month, day |-> day, text |-> text]

MonthDayInputs ==
    {Input("monthday", MonthNumber[m], NumberOf(d),
           WithCase(MonthNames[m], c) \o Spaces(n) \o d \o x) :
        m \in 1..Len(MonthNames), c \in Cases, n \in 0..MaxSep, d \in DayTexts,
        x \in {<< >>} \cup OrdinalSuffixes}

IsoText(y, m, d) == Decimal(y, 4) \o <<"-">> \o Decimal(m, 2) \o <<"-">> \o Decimal(d, 2)
IsoInputs ==
    {Input("iso", 0, 0, IsoText(y, m, d)) :
        y \in {1999, 2025}, m \in 0..13, d \in {0, 1, 28, 29, 30, 31, 32}}

OtherTexts == {
    << >>,
    <<"2", "5", "t", "h">>,
    <<"2", "5">>,
    <<"t", "o", "m", "o", "r", "r", "o", "w">>,
    <<"s", "e", "p">>,
    <<"s", "e", "p", " ", "1", "2", "5">>,
    <<"s", "e", "p", "t", " ", "2", "5">>,
    <<"2", "5", " ", "s", "e", "p">>,
    <<" ", "s", "e", "p", "2", "5", " ">>,
    <<"2", "0", "2", "5", "/", "0", "9", "/", "2", "5">> }
OtherInputs == {Input("other", 0, 0, t) : t \in OtherTexts}

\* the two sides of a range
RangeParts == {
    <<"s", "e", "p", "2", "5">>,
    <<"o", "c", "t", "2">>,
    <<"S", "e", "p", " ", "2", "5", "t", "h">>,
    <<"f", "e", "b", " ", "3", "0">>,
    <<"2", "5", "t", "h">>,
    <<"2", "0", "2", "5", "-", "0", "9", "-", "2", "5">>,
    <<"2", "0", "2", "5", "-", "1", "0", "-", "0", "2">> }
Connectors == {<<" ", "t", "o", " ">>,
               <<" ", "t", "h", "r", "o", "u", "g", "h", " ">>,
               <<"-">>,
               <<" ", "-", " ">>}
RangeInputs ==
    {Input("range", 0, 0, a \o c \o b) : a \in RangeParts, c \in Connectors, b \in RangeParts}

DateInputs == MonthDayInputs \cup IsoInputs \cup OtherInputs \cup RangeInputs

Years == {2025, 2026}
\* a date new Date(str) may yield for a string that is not in the ISO format
GenericDates == {InvalidDate, [valid |-> TRUE, y |-> 2001, m |-> 12, d |-> 1]}

\* parseFlexibleDate is applied to an expression
ParseDate(in, generic) ==
    /\ datePc = "idle"
    /\ datePc' = "parsed"
    /\ dateShape' = in
    /\ dates' = in.text
    /\ genericDate' = generic
    /\ parsedOnce' = parseFlexibleDate(in.text, currentYear, generic)
    /\ UNCHANGED <<currentYear, parsedTwice, departureDate, returnDate>>
    /\ UNCHANGED <<flowVars, routeVars, rankVars, chatVars, requestVars>>

\* parseFlexibleDate is applied to its own result
ParseAgain ==
    /\ datePc = "parsed"
    /\ datePc' = "reparsed"
    /\ parsedTwice' = parseFlexibleDate(parsedOnce, currentYear, genericDate)
    /\ UNCHANGED <<currentYear, dateShape, dates, genericDate, parsedOnce, departureDate, returnDate>>
    /\ UNCHANGED <<flowVars, routeVars, rankVars, chatVars, requestVars>>

\* lines 533-546: handleSendMessage resolves the dates of completed flight details
ResolveDates(in, generic) ==
    /\ datePc = "idle"
    /\ datePc' = "resolved"
    /\ dateShape' = in
    /\ dates' = in.text
    /\ genericDate' = generic
    /\ departureDate' = ResolveDeparture(in.text, currentYear, generic)
    /\ returnDate' = ResolveReturn(in.text, currentYear, generic)
    /\ UNCHANGED <<currentYear, parsedOnce, parsedTwice>>
    /\ UNCHANGED <<flowVars, routeVars, rankVars, chatVars, requestVars>>

DateNext ==
    \/ /\ datePc = "idle"
       /\ \E in \in DateInputs, generic \in GenericDates : ParseDate(in, generic)
    \/ ParseAgain
    \/ /\ datePc = "idle"
       /\ \E in \in DateInputs, generic \in GenericDates : ResolveDates(in, generic)

----------------------------------------------------------------------------
(* FlightResultsView: the ranking of offers, lines 287-304 *)

\* duration.match(/(\d+)h\s*(\d*)m/) tried at position i of s
DurationMatchesAt(s, i) ==
    LET n == DigitsFrom(s, i)
        h == i + n
        m == h + 1 + SpacesFrom(s, h + 1)
    IN /\ n >= 1
       /\ OccursAt(s, <<"h">>, h)
       /\ OccursAt(s, <<"m">>, m + DigitsFrom(s, m))

\* lines 289-290: .slice(1).map(s => parseInt(s) || 0).reduce(...), the minutes of
\* a duration; 0 when the expression does not match
durationMinutes(s) ==
    IF \E i \in 1..Len(s) : DurationMatchesAt(s, i)
    THEN LET i == CHOOSE i \in 1..Len(s) :
                      /\ DurationMatchesAt(s, i)
                      /\ \A k \in 1..(i - 1) : ~DurationMatchesAt(s, k)
             n == DigitsFrom(s, i)
             m == i + n + 1 + SpacesFrom(s, i + n + 1)
         IN NumberOf(SubSeq(s, i, i + n - 1)) * 60
            + NumberOf(SubSeq(s, m, m + DigitsFrom(s, m) - 1))
    ELSE 0

Tabs == {"best", "cheapest", "fastest"}

\* lines 292-301: the comparator's result; for 'best' it is written doubled,
\* (a.price + 2 durationA) - (b.price + 2 durationB), which has the sign of
\* (a.price / 2 + durationA) - (b.price / 2 + durationB)
Compare(a, b, tab) ==
    IF tab = "cheapest" THEN a.price - b.price
    ELSE IF tab = "fastest" THEN durationMinutes(a.duration) - durationMinutes(b.duration)
    ELSE (a.price + 2 * durationMinutes(a.duration)) - (b.price + 2 * durationMinutes(b.duration))

\* a sort that is not stable: x goes before the first element not before it
RECURSIVE InsertSortedUnstable(_, _, _)
InsertSortedUnstable(sorted, x, tab) ==
    IF sorted = << >> THEN <<x>>
    ELSE IF Compare(Head(sorted), x, tab) >= 0 THEN <<x>> \o sorted
    ELSE <<Head(sorted)>> \o InsertSortedUnstable(Tail(sorted), x, tab)

\* Array.prototype.sort is stable: x goes before the first element that the
\* comparator puts after it
RECURSIVE InsertSorted(_, _, _)
InsertSorted(sorted, x, tab) ==
    IF sorted = << >> THEN <<x>>
    ELSE IF Compare(Head(sorted), x, tab) > 0 THEN <<x>> \o sorted
    ELSE <<Head(sorted)>> \o InsertSorted(Tail(sorted), x, tab)
RECURSIVE SortBy(_, _)
SortBy(list, tab) ==
    IF list = << >> THEN << >>
    ELSE InsertSorted(SortBy(SubSeq(list, 1, Len(list) - 1), tab), list[Len(list)], tab)

\* line 288: [...flights].sort(...) sorts a copy; what flights holds afterwards
FlightsAfterSort(list, tab) == list

\* the comparators of the selections with 'best' comparing prices alone
SelectComparePriceOnly(a, b, which) ==
    IF which = "fastest" THEN durationMinutes(a.duration) - durationMinutes(b.duration)
    ELSE a.price - b.price

\* lines 307, 310 and 313-317: the comparators of the three selections, each
\* written out in its own useMemo; the one of 'best' doubled as in Compare
SelectCompare(a, b, which) ==
    IF which = "cheapest" THEN a.price - b.price
    ELSE IF which = "fastest" THEN durationMinutes(a.duration) - durationMinutes(b.duration)
    ELSE (a.price + 2 * durationMinutes(a.duration)) - (b.price + 2 * durationMinutes(b.duration))

\* [...flights].sort(comparator) of lines 307, 310 and 313
RECURSIVE SelectInsert(_, _, _)
SelectInsert(sorted, x, which) ==
    IF sorted = << >> THEN <<x>>
    ELSE IF SelectCompare(Head(sorted), x, which) > 0 THEN <<x>> \o sorted
    ELSE <<Head(sorted)>> \o SelectInsert(Tail(sorted), x, which)
RECURSIVE SelectSorted(_, _)
SelectSorted(list, which) ==
    IF list = << >> THEN << >>
    ELSE SelectInsert(SelectSorted(SubSeq(list, 1, Len(list) - 1), which), list[Len(list)], which)

\* [0] of a list: undefined for the empty list, nothing is thrown
First(list) == IF list = << >> THEN Absent ELSE list[1]

\* lines 306-318: the selections the tabs show
bestFlight(list) == First(SelectSorted(list, "best"))
cheapestFlight(list) == First(SelectSorted(list, "cheapest"))
fastestFlight(list) == First(SelectSorted(list, "fastest"))

\* the most offers a ranked list holds
MaxRanked == 3
RankedLists ==
    UNION {{l \in [1..n -> {OfferPool[i] : i \in 1..Len(OfferPool)}] :
              \A i, j \in 1..n : i # j => l[i].id # l[j].id} : n \in 0..MaxRanked}

\* lines 205-208: the effect starts over
EffectStarts ==
    /\ ~viewLoading
    /\ viewLoading' = TRUE
    /\ flights' = << >>
    /\ sortedFlights' = SortBy(<< >>, activeTab)
    /\ UNCHANGED activeTab
    /\ UNCHANGED <<flowVars, routeVars, dateVars, chatVars, requestVars>>

\* lines 212-222 and 261-275: the effect sets the offers and the view renders
SetFlights(list) ==
    /\ viewLoading
    /\ viewLoading' = FALSE
    /\ flights' = FlightsAfterSort(list, activeTab)
    /\ sortedFlights' = SortBy(list, activeTab)
    /\ UNCHANGED activeTab
    /\ UNCHANGED <<flowVars, routeVars, dateVars, chatVars, requestVars>>

\* line 369: onValueChange={setActiveTab}, and the view renders
SetActiveTab(tab) ==
    /\ activeTab' = tab
    /\ flights' = FlightsAfterSort(flights, tab)
    /\ sortedFlights' = SortBy(flights, tab)
    /\ UNCHANGED viewLoading
    /\ UNCHANGED <<flowVars, routeVars, dateVars, chatVars, requestVars>>

RankNext ==
    \/ EffectStarts
    \/ \E list \in RankedLists : SetFlights(list)
    \/ \E tab \in Tabs : SetActiveTab(tab)

----------------------------------------------------------------------------
(* AIChat: handleSendMessage and the results view it renders, lines 427-683 *)

\* the slots of flightDetails (lines 25-30): each optional; dates is written as
\* its characters
NoDates == [t |-> Absent, chars |-> << >>]
DatesSlot(chars) == [t |-> "string", chars |-> chars]
FlightDetails(destination, origin, d, passengers) ==
    [destination |-> destination, origin |-> origin, dates |-> d, passengers |-> passengers]

Sep25 == <<"s", "e", "p", "2", "5">>
Sep25ToOct2 == <<"s", "e", "p", "2", "5", " ", "t", "o", " ", "o", "c", "t", "2">>
Tomorrow == <<"t", "o", "m", "o", "r", "r", "o", "w">>
\* a range without its first part, and a blank
HyphenOct2 == <<"-", "o", "c", "t", "2">>
OneSpace == <<" ">>

\* the slot sets the completion service may return: z.string().optional() admits
\* the empty string and z.number().optional() any number
DatesSlots == {NoDates, DatesSlot(<< >>), DatesSlot(Sep25), DatesSlot(Sep25ToOct2),
               DatesSlot(Tomorrow), DatesSlot(HyphenOct2), DatesSlot(OneSpace)}
PassengerSlots == {NoField, Field("number", "0"), Field("number", "2"), Field("number", "-1"),
                   Field("number", "2.5")}
DetailsSets ==
    {FlightDetails(destination, origin, d, passengers) :
        destination \in {NoField, Field("string", ""), Field("string", "Rome")},
        origin \in {NoField, Field("string", ""), Field("string", "Paris")},
        d \in DatesSlots, passengers \in PassengerSlots}

\* the slot set of the round-trips followed
FilledDetails ==
    FlightDetails(Field("string", "Rome"), Field("string", "Paris"), DatesSlot(Sep25ToOct2),
                  Field("number", "2"))
ChatDetailsSets == {FilledDetails}

\* what flightBookingAssistant gives back: a reply with isFlightDetailsComplete
\* and flightDetails (present or not), or a rejection of the server call
NoDetails == FlightDetails(NoField, NoField, NoDates, NoField)
Reply(complete, hasDetails, details) ==
    [thrown |-> FALSE, isFlightDetailsComplete |-> complete, hasDetails |-> hasDetails,
     flightDetails |-> details]
CallFailed == [thrown |-> TRUE, isFlightDetailsComplete |-> FALSE, hasDetails |-> FALSE,
               flightDetails |-> NoDetails]
FirstReplies ==
    {Reply(c, FALSE, NoDetails) : c \in BOOLEAN}
    \cup {Reply(FALSE, TRUE, d) : d \in {NoDetails}}
    \cup {Reply(TRUE, TRUE, d) : d \in ChatDetailsSets}
    \cup {CallFailed}
SecondReplies == {Reply(FALSE, FALSE, NoDetails), CallFailed}

\* line 472: const { destination = '', origin = '', dates = '', passengers = 1 }
DefaultString(f) == IF f.t = Absent THEN Field("string", "") ELSE f
DefaultDates(d) == IF d.t = Absent THEN << >> ELSE d.chars
DefaultPassengers(f) == IF f.t = Absent THEN Field("number", "1") ELSE f

\* x ?? fallback: only a missing value is replaced
OrElseNullish(f, fallback) == IF f.t = "absent" THEN fallback ELSE f

\* x || fallback
OrElse(f, fallback) == IF Falsy(f) THEN fallback ELSE f
Glasgow == Field("string", "Glasgow")
Chennai == Field("string", "Chennai")
OnePassenger == Field("number", "1")
FallbackDeparture == <<"2", "0", "2", "5", "-", "0", "9", "-", "1", "9">>

\* lines 564-571: the body of the lookup request the chat sends
SearchRequest(origin, destination, departure, return, passengers) ==
    [origin |-> origin, destination |-> destination, departureDate |-> departure,
     returnDate |-> return, passengers |-> passengers]
ChatRequest(details, year, generic) ==
    SearchRequest(
        OrElse(DefaultString(details.origin), Glasgow),
        OrElse(DefaultString(details.destination), Chennai),
        IF ResolveDeparture(DefaultDates(details.dates), year, generic) = << >>
        THEN FallbackDeparture
        ELSE ResolveDeparture(DefaultDates(details.dates), year, generic),
        ResolveReturn(DefaultDates(details.dates), year, generic),
        OrElse(DefaultPassengers(details.passengers), OnePassenger))

\* lines 249-255: the body of the lookup request the results view sends
ViewRequest(parsed) ==
    SearchRequest(Field("string", parsed.origin), Field("string", parsed.destination),
                  parsed.dates, NullDate, OnePassenger)

\* what parseFlightQuery makes of the query: destination and dates (empty when it
\* finds none), and the origin lines 231-232 read from otherDetails
ParsedQuery(destination, d, origin) == [destination |-> destination, dates |-> d, origin |-> origin]
ParsedQueries ==
    {ParsedQuery("Rome", Sep25, "London"), ParsedQuery("", Sep25, "London"),
     ParsedQuery("Rome", << >>, "Paris")}

\* line 12 of the route, for a body whose departureDate is written as characters
RequiredMissing(body) ==
    Falsy(body.origin) \/ Falsy(body.destination) \/ body.departureDate = << >>

\* How a lookup request ends for its sender: fetch or flightResponse.json()
\* rejects, or there is a response body, with the flights property the route
\* gives it (none with status 400).
LookupFailed == [settled |-> FALSE, status |-> 0, flights |-> NoFlights]
LookupReply(status, fl) == [settled |-> TRUE, status |-> status, flights |-> fl]
\* the offers of a lookup: none or some, which is all the chat and the results
\* view tell apart (line 212)
FetchedLists == {<< >>, <<OfferPool[1]>>}
LookupReplies(body) ==
    {LookupFailed}
    \cup (IF RequiredMissing(body)
          THEN {LookupReply(400, NoFlights)}
          ELSE {LookupReply(200, FlightsList(l)) : l \in FetchedLists}
               \cup {LookupReply(500, FlightsList(<< >>))})

\* line 590 handing the second call no offers at all
FetchedFlightsNone(reply) == << >>

\* line 575: flightData.flights || []
FetchedFlights(reply) == IF reply.flights.t = "array" THEN reply.flights.items ELSE << >>

\* a message of the transcript: its role, what it is, and the round-trip it is of
Message(role, kind, trip) == [role |-> role, kind |-> kind, trip |-> trip]

\* a round-trip: who started it, where it stands ("completion1", "lookup",
\* "completion2", "done"), whether its first reply was complete with details,
\* whether its lookup has resolved and the flights property of the response
Trip(by, pc, complete, resolved, fetched) ==
    [by |-> by, pc |-> pc, complete |-> complete, resolved |-> resolved, fetched |-> fetched]

\* a call of flightBookingAssistant: the round-trip, first or second call, and
\* availableFlights (given or not)
Completion(trip, call, given, offers) ==
    [trip |-> trip, call |-> call, given |-> given, availableFlights |-> offers]

\* a request sent to /api/search-flights: by the chat or by the results view,
\* for the slot set of which round-trip, from which slots, with which body
Lookup(by, trip, details, body) == [by |-> by, trip |-> trip, details |-> details, body |-> body]

NoFlightQuery == [trip |-> 0, details |-> NoDetails]
NoSearchCriteria ==
    SearchRequest(NoField, NoField, << >>, NullDate, NoField)

\* the round-trips a behaviour follows
MaxTrips == 2
\* the lookup requests of the results view a behaviour follows
MaxViewLookups == 1

InitialQueries == {Absent, "Flights to Rome"}
InputTexts == {"", " ", "hi"}
\* !content.trim()
Blank(text) == text \in {"", " "}

\* lines 198-223 of the results view: its effect runs with these provided flights
ResultsEffect(provided) == IF Len(provided) > 0 THEN "shown" ELSE "parsing"
\* line 658: showFlightResults && flightQuery
ResultsMounted(shown, query) == shown /\ query.trip # 0

\* lines 445-469: handleSendMessage up to its first await, started `by` the
\* effect or from the input (the Enter key, the Send button), with
\* messageContent given or not
BeginTrip(by, hasMessageContent) ==
    /\ showViewFlightsButton' = FALSE
    /\ messages' = IF ~hasMessageContent \/ ~processedInitialQuery
                   THEN Append(messages, Message("user", "user", Len(trips) + 1))
                   ELSE messages
    /\ input' = IF hasMessageContent THEN input ELSE ""
    /\ loading' = TRUE
    /\ trips' = Append(trips, Trip(by, "completion1", FALSE, FALSE, NoFlights))
    /\ completionLog' = Append(completionLog, Completion(Len(trips) + 1, 1, FALSE, << >>))
    /\ UNCHANGED <<initialQuery, showFlightResults, flightQuery, realFlights, searchCriteria,
                   lookupLog, resultsPc>>

\* lines 438-443: the effect runs after the first render and after a render
\* with another initialQuery
InitialQueryEffect ==
    /\ effectDue
    /\ effectDue' = FALSE
    /\ IF initialQuery # Absent /\ ~processedInitialQuery
       THEN /\ processedInitialQuery' = TRUE
            /\ IF Blank(initialQuery)
               THEN UNCHANGED <<initialQuery, input, loading, messages, trips,
                                showViewFlightsButton, showFlightResults, flightQuery,
                                realFlights, searchCriteria, lookupLog, completionLog, resultsPc>>
               ELSE BeginTrip("effect", TRUE)
       ELSE UNCHANGED <<initialQuery, processedInitialQuery, input, loading, messages, trips,
                        showViewFlightsButton, showFlightResults, flightQuery, realFlights,
                        searchCriteria, lookupLog, completionLog, resultsPc>>
    /\ UNCHANGED <<flowVars, routeVars, dateVars, rankVars, requestVars>>

\* the parent renders AIChat with an initialQuery: the dependency of line 443.
\* Before the first effect has run this is the query AIChat is mounted with; a
\* later change of the query finds processedInitialQuery set and starts nothing.
InitialQueryChanges(query) ==
    /\ initialQuery = Absent
    /\ Len(trips) < MaxTrips
    /\ query # initialQuery
    /\ initialQuery' = query
    /\ effectDue' = TRUE
    /\ UNCHANGED <<processedInitialQuery, input, loading, messages, trips, showViewFlightsButton,
                   showFlightResults, flightQuery, realFlights, searchCriteria, lookupLog,
                   completionLog, resultsPc>>
    /\ UNCHANGED <<flowVars, routeVars, dateVars, rankVars, requestVars>>

\* line 673: onChange of the text field, which line 676 disables while loading
TypeInput(text) ==
    /\ ~effectDue
    /\ ~loading
    /\ Len(trips) < MaxTrips
    /\ input = ""
    /\ text # input
    /\ input' = text
    /\ UNCHANGED <<initialQuery, processedInitialQuery, effectDue, loading, messages, trips,
                   showViewFlightsButton, showFlightResults, flightQuery, realFlights,
                   searchCriteria, lookupLog, completionLog, resultsPc>>
    /\ UNCHANGED <<flowVars, routeVars, dateVars, rankVars, requestVars>>

\* handleSendMessage() from the text field or the button: nothing happens on a
\* blank input (line 447)
SendInput(by) ==
    /\ ~effectDue
    /\ ~loading
    /\ Len(trips) < MaxTrips
    /\ ~Blank(input)
    /\ BeginTrip(by, FALSE)
    /\ UNCHANGED <<processedInitialQuery, effectDue>>
    /\ UNCHANGED <<flowVars, routeVars, dateVars, rankVars, requestVars>>

\* line 674: e.key === 'Enter' && !loading && handleSendMessage()
PressEnter == SendInput("input")

\* line 678: onClick of the Send button, disabled while loading
ClickSend == SendInput("input")

\* trips with round-trip i at another position
TripAt(i, pc, complete, resolved, fetched) ==
    [trips EXCEPT ![i] = Trip(trips[i].by, pc, complete, resolved, fetched)]

\* lines 604-613 (and 597-600, 608-612): the round-trip ends with one assistant
\* message and setLoading(false)
EndTrip(i, kind) ==
    /\ messages' = Append(messages, Message("assistant", kind, i))
    /\ loading' = FALSE
    /\ trips' = TripAt(i, "done", trips[i].complete, trips[i].resolved, trips[i].fetched)

\* the results view's effect runs again when it is mounted and a dependency of
\* line 285 has changed
ResultsAfter(changed, provided) ==
    IF changed /\ ResultsMounted(showFlightResults, flightQuery)
    THEN ResultsEffect(provided)
    ELSE resultsPc

\* lines 469-572: the first call of flightBookingAssistant settles; with complete
\* details the lookup request is built and sent
FirstReplyArrives(i, r, generic) ==
    /\ trips[i].pc = "completion1"
    /\ IF r.thrown
       THEN /\ EndTrip(i, "error")
            /\ UNCHANGED <<flightQuery, lookupLog, resultsPc>>
       ELSE IF r.isFlightDetailsComplete /\ r.hasDetails
       THEN /\ flightQuery' = [trip |-> i, details |-> r.flightDetails]
            /\ lookupLog' = Append(lookupLog,
                   Lookup("chat", i, r.flightDetails,
                          ChatRequest(r.flightDetails, currentYear, generic)))
            /\ trips' = TripAt(i, "lookup", TRUE, FALSE, NoFlights)
            /\ resultsPc' = ResultsAfter(r.flightDetails # flightQuery.details, realFlights)
            /\ UNCHANGED <<messages, loading>>
       ELSE /\ EndTrip(i, "reply")
            /\ UNCHANGED <<flightQuery, lookupLog, resultsPc>>
    /\ UNCHANGED <<initialQuery, processedInitialQuery, effectDue, input, showViewFlightsButton,
                   showFlightResults, realFlights, searchCriteria, completionLog>>
    /\ UNCHANGED <<flowVars, routeVars, dateVars, rankVars, requestVars>>

\* the body of the lookup request round-trip i sent
RequestOf(i) ==
    LET k == CHOOSE k \in 1..Len(lookupLog) : lookupLog[k].by = "chat" /\ lookupLog[k].trip = i
    IN lookupLog[k].body

\* lines 574-592, 594-600: the lookup settles; its offers are stored and given to
\* the second call of flightBookingAssistant
LookupSettles(i, reply) ==
    /\ trips[i].pc = "lookup"
    /\ IF reply.settled
       THEN /\ realFlights' = FetchedFlights(reply)
            /\ searchCriteria' = RequestOf(i)
            /\ completionLog' = Append(completionLog, Completion(i, 2, TRUE, FetchedFlights(reply)))
            /\ trips' = TripAt(i, "completion2", TRUE, TRUE, reply.flights)
            /\ resultsPc' = ResultsAfter(TRUE, FetchedFlights(reply))
            /\ UNCHANGED <<messages, loading>>
       ELSE /\ EndTrip(i, "lookupFailed")
            /\ UNCHANGED <<realFlights, searchCriteria, completionLog, resultsPc>>
    /\ UNCHANGED <<initialQuery, processedInitialQuery, effectDue, input, showViewFlightsButton,
                   showFlightResults, flightQuery, lookupLog>>
    /\ UNCHANGED <<flowVars, routeVars, dateVars, rankVars, requestVars>>

\* lines 592-613: the second call settles
SecondReplyArrives(i, r) ==
    /\ trips[i].pc = "completion2"
    /\ IF r.thrown
       THEN /\ EndTrip(i, "lookupFailed")
            /\ UNCHANGED showViewFlightsButton
       ELSE /\ EndTrip(i, "summary")
            /\ showViewFlightsButton' = TRUE
    /\ UNCHANGED <<initialQuery, processedInitialQuery, effectDue, input, showFlightResults,
                   flightQuery, realFlights, searchCriteria, lookupLog, completionLog, resultsPc>>
    /\ UNCHANGED <<flowVars, routeVars, dateVars, rankVars, requestVars>>

\* line 652: the 'View All Flights' / 'Hide Results' button; mounting the
\* results view runs its effect
ToggleResults ==
    /\ ~effectDue
    /\ showViewFlightsButton
    /\ showFlightResults' = ~showFlightResults
    /\ resultsPc' = IF ResultsMounted(~showFlightResults, flightQuery)
                    THEN ResultsEffect(realFlights)
                    ELSE "unmounted"
    /\ UNCHANGED <<initialQuery, processedInitialQuery, effectDue, input, loading, messages,
                   trips, showViewFlightsButton, flightQuery, realFlights, searchCriteria,
                   lookupLog, completionLog>>
    /\ UNCHANGED <<flowVars, routeVars, dateVars, rankVars, requestVars>>

\* lines 226-256 of the results view: parseFlightQuery resolves and, with a
\* destination and dates, the view sends a lookup request of its own
ResultsParsed(parsed) ==
    /\ resultsPc = "parsing"
    /\ Cardinality({k \in 1..Len(lookupLog) : lookupLog[k].by = "view"}) < MaxViewLookups
    /\ IF parsed.destination # "" /\ parsed.dates # << >>
       THEN /\ lookupLog' = Append(lookupLog,
                   Lookup("view", flightQuery.trip, flightQuery.details, ViewRequest(parsed)))
            /\ resultsPc' = "fetching"
       ELSE /\ resultsPc' = "shown"
            /\ UNCHANGED lookupLog
    /\ UNCHANGED <<initialQuery, processedInitialQuery, effectDue, input, loading, messages,
                   trips, showViewFlightsButton, showFlightResults, flightQuery, realFlights,
                   searchCriteria, completionLog>>
    /\ UNCHANGED <<flowVars, routeVars, dateVars, rankVars, requestVars>>

\* lines 258-281 of the results view: its lookup settles
ResultsFetched ==
    /\ resultsPc = "fetching"
    /\ resultsPc' = "shown"
    /\ UNCHANGED <<initialQuery, processedInitialQuery, effectDue, input, loading, messages,
                   trips, showViewFlightsButton, showFlightResults, flightQuery, realFlights,
                   searchCriteria, lookupLog, completionLog>>
    /\ UNCHANGED <<flowVars, routeVars, dateVars, rankVars, requestVars>>

\* lines 472-571 alone: the lookup request built from the slots of a complete reply
BuildSearchRequest(details, generic) ==
    /\ requestPc = "idle"
    /\ requestPc' = "built"
    /\ slots' = details
    /\ genericOfSlots' = generic
    /\ searchRequest' = ChatRequest(details, currentYear, generic)
    /\ UNCHANGED <<flowVars, routeVars, dateVars, rankVars, chatVars>>

RequestNext ==
    /\ requestPc = "idle"
    /\ \E details \in DetailsSets, generic \in GenericDates : BuildSearchRequest(details, generic)

ChatNext ==
    \/ InitialQueryEffect
    \/ \E query \in InitialQueries : InitialQueryChanges(query)
    \/ \E text \in InputTexts : TypeInput(text)
    \/ PressEnter
    \/ ClickSend
    \/ \E i \in 1..Len(trips) : \E r \in FirstReplies, generic \in GenericDates :
            FirstReplyArrives(i, r, generic)
    \/ \E i \in 1..Len(trips) :
            /\ trips[i].pc = "lookup"
            /\ \E reply \in LookupReplies(RequestOf(i)) : LookupSettles(i, reply)
    \/ \E i \in 1..Len(trips) : \E r \in SecondReplies : SecondReplyArrives(i, r)
    \/ ToggleResults
    \/ \E parsed \in ParsedQueries : ResultsParsed(parsed)
    \/ ResultsFetched

----------------------------------------------------------------------------
(* Specifications *)

Init ==
    /\ flowPc = "idle"
    /\ attempt = 1
    /\ lastError = NoError
    /\ flowTrace = << >>
    /\ flowResult = NoResult
    /\ routePc = "idle"
    /\ reqBody \in {b \in Bodies : ~b.parses}
    /\ spawnCount = 0
    /\ child = NoChild
    /\ procEvents = << >>
    /\ stdoutBuf = << >>
    /\ stderrBuf = << >>
    /\ promise = Pending
    /\ httpResponse = NoResponse
    /\ datePc = "idle"
    /\ currentYear \in Years
    /\ dateShape = Input("none", 0, 0, << >>)
    /\ dates = << >>
    /\ genericDate = InvalidDate
    /\ parsedOnce = << >>
    /\ parsedTwice = << >>
    /\ departureDate = << >>
    /\ returnDate = NullDate
    /\ flights = << >>
    /\ activeTab = "best"
    /\ sortedFlights = << >>
    /\ viewLoading = TRUE
    /\ initialQuery = Absent
    /\ processedInitialQuery = FALSE
    /\ effectDue = TRUE
    /\ input = ""
    /\ loading = FALSE
    /\ messages = << >>
    /\ trips = << >>
    /\ showViewFlightsButton = FALSE
    /\ showFlightResults = FALSE
    /\ flightQuery = NoFlightQuery
    /\ realFlights = << >>
    /\ searchCriteria = NoSearchCriteria
    /\ lookupLog = << >>
    /\ completionLog = << >>
    /\ resultsPc = "unmounted"
    /\ requestPc = "idle"
    /\ slots = NoDetails
    /\ genericOfSlots = InvalidDate
    /\ searchRequest = NoSearchCriteria

\* the completion flow
SpecFlow == Init /\ [][FlowNext]_vars
\* the search-flights route
SpecRoute == Init /\ [][RouteNext]_vars
\* the date normalizer and the date resolution
SpecDates == Init /\ [][DateNext]_vars
\* the ranking of the results view
SpecRank == Init /\ [][RankNext]_vars

\* the chat and the results view it renders
SpecChat == Init /\ [][ChatNext]_vars

\* the lookup request built from completed slots
SpecRequest == Init /\ [][RequestNext]_vars

Next == FlowNext \/ RouteNext \/ DateNext \/ RankNext \/ ChatNext \/ RequestNext
Spec == Init /\ [][Next]_vars

----------------------------------------------------------------------------
(* The completion flow: retries and fallback replies (C1-C3) *)

\* the classes of failure, read off an error's status and message
TransientFailure(e) ==
    e.status = "503" \/ \E i \in 1..Len(e.message) : e.message[i] = "overloaded"
QuotaFailure(e) ==
    e.status = "429" \/ \E i \in 1..Len(e.message) : e.message[i] = "quota"
AuthFailure(e) == e.status \in {"401", "403"}

CallCount == Cardinality({i \in 1..Len(flowTrace) : flowTrace[i].ev = "call"})
IsCallAt(i, n) == flowTrace[i].ev = "call" /\ flowTrace[i].attempt = n
IsErrorAt(i, n) == flowTrace[i].ev = "error" /\ flowTrace[i].attempt = n
IsDelayAt(i, n) ==
    /\ flowTrace[i].ev = "delay"
    /\ flowTrace[i].attempt = n
    /\ flowTrace[i].ms = n * 1000
\* every attempt of the invocation failed and the flow returned
AllAttemptsFailed == flowPc = "returned" /\ lastError.thrown /\ flowResult.kind # "output"

C2_NoCallAfterQuotaOrAuth ==
    \A i \in 1..Len(flowTrace) :
        (/\ flowTrace[i].ev = "error"
         /\ (QuotaFailure(flowTrace[i].error) \/ AuthFailure(flowTrace[i].error))) =>
            /\ \A j \in (i + 1)..Len(flowTrace) : flowTrace[j].ev # "call"
            /\ (flowTrace[i].attempt = 1 => CallCount = 1)

\* C3, as stated: when every attempt failed the flow returns the fixed reply of
\* the class of the last failure with isFlightDetailsComplete = false, and a
\* last failure with status 429 or a 'quota' message always yields the
\* quota-limit reply.
C3_QuotaAlwaysQuotaReply ==
    AllAttemptsFailed =>
        /\ flowResult.kind \in {"overloaded", "quota", "auth", "other"}
        /\ ~flowResult.isFlightDetailsComplete
        /\ QuotaFailure(lastError) => flowResult.kind = "quota"

\* C3, amended: when every attempt failed the flow returns the fixed reply of
\* the first class, in the order overloaded, quota-exceeded, auth-failed, other,
\* that the last failure falls in, with isFlightDetailsComplete = false; a last
\* failure with status 429 or a 'quota' message yields the quota-limit reply
\* unless it also has status 503 or an 'overloaded' message, and then the
\* overloaded reply.
C3_FirstMatchingClassReply ==
    AllAttemptsFailed =>
        /\ flowTrace[Len(flowTrace)].ev = "error"
        /\ flowTrace[Len(flowTrace)].error = lastError
        /\ ~flowResult.isFlightDetailsComplete
        /\ flowResult.kind =
              IF TransientFailure(lastError) THEN "overloaded"
              ELSE IF QuotaFailure(lastError) THEN "quota"
              ELSE IF AuthFailure(lastError) THEN "auth"
              ELSE "other"

\* C3 witness: the second attempt failed with a quota failure that is not
\* transient as well, and the quota-limit reply was returned
C3_Witness ==
    /\ AllAttemptsFailed
    /\ CallCount = 2
    /\ QuotaFailure(lastError)
    /\ ~TransientFailure(lastError)
    /\ flowResult.kind = "quota"

----------------------------------------------------------------------------
(* The search-flights route: the shape of its responses (C4, C5) *)

\* the request was answered after the lookup process was started for it
LookupAnswered == routePc = "responded" /\ spawnCount = 1

\* the outcome of the lookup, read off the child process
Unstartable == ~child.spawned
NonZeroExit == child.spawned /\ child.code # 0
ExitedZero == child.spawned /\ child.code = 0
NotJson == ExitedZero /\ (child.chunks = 0 \/ ~child.doc.json)
Parsed == ExitedZero /\ child.chunks > 0 /\ child.doc.json
BareArray == Parsed /\ child.doc.t = "array"
ObjectWithoutFlightsList == Parsed /\ child.doc.t = "object" /\ child.doc.flights.t # "array"
WellFormedObject ==
    /\ Parsed
    /\ child.doc.t = "object"
    /\ child.doc.flights.t = "array"
    /\ {"total_results", "search_params"} \subseteq child.doc.keys
ClaimedOutcome ==
    \/ Unstartable
    \/ NonZeroExit
    \/ NotJson
    \/ BareArray
    \/ ObjectWithoutFlightsList
    \/ WellFormedObject

ResponseKeys == {"flights", "total_results", "search_params", "error", "note"}
EchoOfRequest ==
    [by |-> "request", origin |-> reqBody.origin, destination |-> reqBody.destination,
     departureDate |-> reqBody.departureDate]

MissingRequired ==
    \E f \in {reqBody.origin, reqBody.destination, reqBody.departureDate} :
        f.t = "absent" \/ (f.t = "string" /\ f.v = "")
C5_MissingParameter400 ==
    /\ (routePc = "responded" /\ reqBody.parses /\ MissingRequired) =>
          /\ httpResponse.status = 400
          /\ httpResponse.keys = {"error"}
          /\ httpResponse.error = "Missing required parameters: origin, destination, departureDate"
    /\ (routePc # "idle" /\ reqBody.parses /\ MissingRequired) =>
          /\ spawnCount = 0
          /\ procEvents = << >>
          /\ promise.state = "pending"

\* C5 witness: a request with no origin was answered
C5_Witness ==
    /\ routePc = "responded"
    /\ reqBody.parses
    /\ reqBody.origin.t = "absent"
    /\ reqBody.destination.t = "string" /\ reqBody.destination.v # ""
    /\ reqBody.departureDate.t = "string" /\ reqBody.departureDate.v # ""
    /\ httpResponse.status = 400

----------------------------------------------------------------------------
(* The date normalizer and the date resolution (C6-C9) *)

\* <year>-<MM>-<DD>, month and day written with two digits
IsoOf(y, m, d) == Decimal(y, 4) \o <<"-">> \o Decimal(m, 2) \o <<"-">> \o Decimal(d, 2)

\* expressions with no month name that no engine reads as a date
NoMonthExamples == {<<"2", "5", "t", "h">>, <<"t", "o", "m", "o", "r", "r", "o", "w">>, << >>}

C7_IsoUnchanged ==
    /\ (datePc \in {"parsed", "reparsed"} /\ dateShape.kind = "iso") => parsedOnce = dates
    /\ (datePc = "reparsed" /\ dateShape.kind = "iso") => parsedTwice = parsedOnce

\* C7 witness: an ISO-formatted input that is no calendar date went through twice
C7_Witness ==
    /\ datePc = "reparsed"
    /\ dateShape.kind = "iso"
    /\ dates = IsoOf(2025, 13, 32)
    /\ genericDate.valid
    /\ parsedTwice = dates

\* a connector stands at place q of s, and the two parts around it
ConnectorAt(s, q) == SeparatorEnd(s, q) # 0
PartBefore(s, q) == SubSeq(s, 1, q - 1)
PartAfter(s, q) == SubSeq(s, SeparatorEnd(s, q), Len(s))

\* C8: whenever the dates expression is two parts joined by a connector ('to',
\* 'through' or '-') it is split in two at a connector, the first part is
\* normalized into departureDate and the second into returnDate, also when the
\* parts contain hyphens themselves, as ISO dates do. Stated for any connector
\* of the expression, of which the first is one.
C8_SplitAtFirstConnector ==
    (datePc = "resolved" /\ dateShape.kind = "range") =>
        \E q \in 1..Len(dates) :
            /\ ConnectorAt(dates, q)
            /\ departureDate =
                  parseFlexibleDate(Trim(PartBefore(dates, q)), currentYear, genericDate)
            /\ returnDate =
                  parseFlexibleDate(Trim(PartAfter(dates, q)), currentYear, genericDate)

\* a real calendar date in the ISO format
DaysInMonth(y, m) ==
    IF m \in {4, 6, 9, 11} THEN 30
    ELSE IF m = 2
    THEN (IF (y % 4 = 0 /\ y % 100 # 0) \/ y % 400 = 0 THEN 29 ELSE 28)
    ELSE 31
IsCalendarDate(s) ==
    /\ Len(s) = 10
    /\ \A i \in {1, 2, 3, 4, 6, 7, 9, 10} : IsDigit(s[i])
    /\ s[5] = "-" /\ s[8] = "-"
    /\ NumberOf(SubSeq(s, 6, 7)) \in 1..12
    /\ NumberOf(SubSeq(s, 9, 10)) >= 1
    /\ NumberOf(SubSeq(s, 9, 10)) <= DaysInMonth(NumberOf(SubSeq(s, 1, 4)), NumberOf(SubSeq(s, 6, 7)))

\* the unparsed strings a resolved date may be: the expression, or a part of it
UnparsedStrings(s) ==
    {s, Trim(s)} \cup {SplitDates(s)[i] : i \in 1..Len(SplitDates(s))}
                 \cup {Trim(SplitDates(s)[i]) : i \in 1..Len(SplitDates(s))}

\* C9: each of departureDate and returnDate the chat resolves is a valid ISO
\* calendar date or the original unparsed string (returnDate may be absent).
C9_ValidDateOrOriginal ==
    datePc = "resolved" =>
        /\ IsCalendarDate(departureDate) \/ departureDate \in UnparsedStrings(dates)
        /\ \/ returnDate = NullDate
           \/ IsCalendarDate(returnDate)
           \/ returnDate \in UnparsedStrings(dates)

----------------------------------------------------------------------------
(* The ranking of offers (C10) *)

\* the number written by the digits that stand right before the first unit
\* letter ('h' or 'm') of a duration, 0 when the letter or the digits are absent
ComponentOf(s, unit) ==
    IF \E i \in 1..Len(s) : s[i] = unit
    THEN LET i == CHOOSE i \in 1..Len(s) :
                      s[i] = unit /\ \A k \in 1..(i - 1) : s[k] # unit
             n == CHOOSE n \in 0..(i - 1) :
                      /\ \A k \in (i - n)..(i - 1) : IsDigit(s[k])
                      /\ (n = i - 1 \/ ~IsDigit(s[i - n - 1]))
         IN NumberOf(SubSeq(s, i - n, i - 1))
    ELSE 0

\* the total minutes of a duration '<H>h <M>m', an absent component being 0
TotalMinutes(s) == 60 * ComponentOf(s, "h") + ComponentOf(s, "m")

\* twice the key of a mode: price for cheapest, the total duration minutes for
\* fastest, price / 2 + duration minutes for best
TwiceKey(o, tab) ==
    IF tab = "cheapest" THEN 2 * o.price
    ELSE IF tab = "fastest" THEN 2 * TotalMinutes(o.duration)
    ELSE o.price + 2 * TotalMinutes(o.duration)

\* where the offer with this id stands in a list
PositionOf(list, id) == CHOOSE i \in 1..Len(list) : list[i].id = id

IsPermutation(a, b) ==
    /\ Len(a) = Len(b)
    /\ \A i \in 1..Len(b) : \E j \in 1..Len(a) : a[j] = b[i]
    /\ \A i \in 1..Len(a) : \E j \in 1..Len(b) : b[j] = a[i]

RankedRight(shown, given, tab) ==
    /\ IsPermutation(shown, given)
    /\ \A i, j \in 1..Len(shown) :
         i < j =>
            /\ TwiceKey(shown[i], tab) <= TwiceKey(shown[j], tab)
            /\ TwiceKey(shown[i], tab) = TwiceKey(shown[j], tab) =>
                  PositionOf(given, shown[i].id) < PositionOf(given, shown[j].id)

\* C10: for every list of offers and every mode the displayed list is a
\* permutation of the input in ascending order of the mode's key (cheapest:
\* price; fastest: total duration minutes; best: price / 2 + duration minutes),
\* offers with equal keys keep their original relative order, and the input
\* list itself is not reordered: a change of mode leaves it as it was.
C10_StableRanking ==
    [][/\ RankedRight(sortedFlights', flights', activeTab')
       /\ activeTab' # activeTab => flights' = flights]_vars

----------------------------------------------------------------------------
(* The chat's round-trips (C11-C13) *)

\* the round-trips that have started and not ended
InFlight == {i \in 1..Len(trips) : trips[i].pc # "done"}

\* C11: in one chat at most one handleSendMessage round-trip is in flight at any
\* time; while one is in flight loading is true, so neither the Enter key nor
\* the Send button nor the initial-query effect starts another.
C11_OneRoundTripInFlight ==
    /\ Cardinality(InFlight) <= 1
    /\ InFlight # {} => loading

\* the second calls of flightBookingAssistant, and the chat's lookup requests
SecondCalls == {k \in 1..Len(completionLog) : completionLog[k].call = 2}
ChatLookups(i) == {k \in 1..Len(lookupLog) : lookupLog[k].by = "chat" /\ lookupLog[k].trip = i}

\* the offers a response carries: the elements of its flights list, none when
\* it has no such list
OffersOf(fl) == IF fl.t = "array" THEN fl.items ELSE << >>

\* C12: within one round-trip the second (offer-summary) completion call is
\* issued only if the first call returned isFlightDetailsComplete = true, only
\* after the lookup request has been sent and has resolved, and with exactly the
\* offers that lookup returned; while the lookup is pending there is no second
\* call.
C12_SecondCallAfterLookup ==
    /\ \A k \in SecondCalls :
         LET i == completionLog[k].trip IN
         /\ trips[i].complete
         /\ ChatLookups(i) # {}
         /\ trips[i].resolved
         /\ trips[i].pc \in {"completion2", "done"}
         /\ completionLog[k].given
         /\ completionLog[k].availableFlights = OffersOf(trips[i].fetched)
    /\ \A i \in 1..Len(trips) :
         /\ Cardinality({k \in SecondCalls : completionLog[k].trip = i}) <= 1
         /\ trips[i].pc \in {"completion1", "lookup"} =>
               ~ \E k \in SecondCalls : completionLog[k].trip = i

\* C12 witness: a round-trip ended with its summary after a lookup that
\* returned an offer, which the second call was given
C12_Witness ==
    \E i \in 1..Len(trips) :
        /\ trips[i].pc = "done"
        /\ trips[i].fetched = FlightsList(<<OfferPool[1]>>)
        /\ \E k \in SecondCalls :
              /\ completionLog[k].trip = i
              /\ completionLog[k].availableFlights = <<OfferPool[1]>>
        /\ \E m \in 1..Len(messages) : messages[m].trip = i /\ messages[m].kind = "summary"

\* C13: for one completed slot set at most one lookup request is sent to
\* /api/search-flights over the whole life of the chat and its results view,
\* also when the lookup returned no offers and the user opens 'View All
\* Flights'; and a request starts the lookup process at most once.
C13_OneLookupPerSlotSet ==
    /\ \A i \in 1..Len(trips) :
          Cardinality({k \in 1..Len(lookupLog) : lookupLog[k].trip = i}) <= 1
    /\ spawnCount <= 1

----------------------------------------------------------------------------
(* The search-flights route: what each outcome of the lookup becomes (C14-C17) *)

\* the zero-offer result of line 38, as the route answers with it
ZeroOfferResult(r) ==
    /\ r.status = 200
    /\ r.flights = FlightsList(<< >>)
    /\ "flights" \in r.keys /\ "error" \in r.keys
    /\ r.error # Absent

C15_NonZeroExit500 ==
    (routePc # "idle" /\ spawnCount = 1 /\ NonZeroExit) =>
        /\ promise.state \in {"pending", "rejected"}
        /\ promise.state = "pending" <=> procEvents # << >>
        /\ promise.state = "rejected" =>
              /\ promise.error = "exit"
              /\ promise.stderr = child.stderr
        /\ routePc = "responded" =>
              /\ httpResponse.status = 500
              /\ httpResponse.keys = {"error", "flights"}
              /\ httpResponse.error # Absent
              /\ httpResponse.flights = FlightsList(<< >>)

\* C15 witness: a process that wrote a well-formed object with an offer to
\* stdout and a traceback to stderr exited with status 1; the answer is 500
C15_Witness ==
    /\ routePc = "responded" /\ spawnCount = 1 /\ NonZeroExit
    /\ child.chunks > 0 /\ child.doc.json /\ child.doc.flights.t = "array"
    /\ Len(child.doc.flights.items) >= 1
    /\ child.stderr = <<"Traceback">>
    /\ promise.stderr = <<"Traceback">>
    /\ httpResponse.status = 500

\* the output parsed as JSON and the value has no list-valued flights field
ParsedWithoutFlightsList == Parsed /\ child.doc.flights.t # "array"

\* C16: when the process exits with status zero and its output parses as JSON
\* without a list-valued flights field, the response is 200 with a bare list as
\* flights and its length as total_results, and for any other value (empty
\* object, null, scalar, object with non-list flights) flights = [] and
\* total_results = 0, search_params echoing the request.
C16_Rewrapped ==
    (LookupAnswered /\ ParsedWithoutFlightsList) =>
        /\ httpResponse.status = 200
        /\ httpResponse.flights =
              FlightsList(IF child.doc.t = "array" THEN child.doc.items ELSE << >>)
        /\ httpResponse.total_results =
              (IF child.doc.t = "array" THEN Len(child.doc.items) ELSE 0)
        /\ {"flights", "total_results", "search_params"} \subseteq httpResponse.keys
        /\ httpResponse.search_params = EchoOfRequest

\* the fixed demo result: one offer, total_results 1, the request echoed, a note
IsDemoResult(r) ==
    /\ r.status = 200
    /\ r.flights.t = "array" /\ Len(r.flights.items) = 1
    /\ r.total_results = 1
    /\ r.search_params = EchoOfRequest
    /\ "note" \in r.keys

\* C17: the response to a request the lookup process was started for is the
\* fixed demo result if, and only if, the process exited with status zero and
\* its output does not parse as JSON.
C17_DemoIffNotJson ==
    LookupAnswered => (IsDemoResult(httpResponse) <=> NotJson)

----------------------------------------------------------------------------
(* FlightResultsView: durations and the selected offers (C18, C19) *)

\* C18: the duration the ranking uses for an offer is 60 x hours + minutes of
\* its '<H>h <M>m' string, an absent hours or minutes component counting as 0
\* ('5h' is 300 minutes, '45m' is 45 minutes).
C18_DurationIsTotalMinutes ==
    \A i \in 1..Len(flights) :
        durationMinutes(flights[i].duration) = TotalMinutes(flights[i].duration)

\* what a mode's selection is said to be: the first element of the full list
\* sorted in that mode, absent for the empty list
FirstSorted(list, tab) == IF list = << >> THEN Absent ELSE SortBy(list, tab)[1]

\* C19: for every list of offers the selected best, cheapest and fastest offers
\* each equal the first element of the full list sorted in that mode (which for
\* the active mode is the first offer displayed); for the empty list each
\* selection is absent.
C19_SelectionsAreFirstSorted ==
    /\ bestFlight(flights) = FirstSorted(flights, "best")
    /\ cheapestFlight(flights) = FirstSorted(flights, "cheapest")
    /\ fastestFlight(flights) = FirstSorted(flights, "fastest")
    /\ flights = << >> =>
          /\ bestFlight(flights) = Absent
          /\ cheapestFlight(flights) = Absent
          /\ fastestFlight(flights) = Absent
    /\ (flights # << >> /\ Len(sortedFlights) = Len(flights)) =>
          sortedFlights[1] = (IF activeTab = "cheapest" THEN cheapestFlight(flights)
                              ELSE IF activeTab = "fastest" THEN fastestFlight(flights)
                              ELSE bestFlight(flights))

\* C19 witness: a list is displayed in mode 'best' whose three selections are
\* three different offers, the best one being the first displayed
C19_Witness ==
    /\ Len(flights) >= 3
    /\ activeTab = "best"
    /\ sortedFlights[1] = bestFlight(flights)
    /\ bestFlight(flights) # cheapestFlight(flights)
    /\ bestFlight(flights) # fastestFlight(flights)
    /\ cheapestFlight(flights) # fastestFlight(flights)

----------------------------------------------------------------------------
(* AIChat: the lookup request built from completed slots (C20) *)

\* a slot is absent when the reply has none; an empty string is read as absent too
SlotAbsent(f) == f.t = "absent" \/ (f.t = "string" /\ f.v = "")
\* the numbers of PassengerSlots and OnePassenger that are positive integers
IsPositiveInteger(f) == f.t = "number" /\ f.v \in {"1", "2"}

\* C20: the request the chat builds from completed slots carries the extracted
\* origin, destination and passengers when they are present and the fallbacks
\* ('Glasgow', 'Chennai', 1) only when they are absent, and its passengers value
\* is always a positive integer.
C20_RequestCarriesSlots ==
    requestPc = "built" =>
        /\ searchRequest.origin = (IF SlotAbsent(slots.origin) THEN Glasgow ELSE slots.origin)
        /\ searchRequest.destination =
              (IF SlotAbsent(slots.destination) THEN Chennai ELSE slots.destination)
        /\ slots.passengers.t = "absent" => searchRequest.passengers = OnePassenger
        /\ IsPositiveInteger(slots.passengers) => searchRequest.passengers = slots.passengers
        /\ IsPositiveInteger(searchRequest.passengers)

----------------------------------------------------------------------------
(* AIChat: the transcript (C21) *)

\* the places of the transcript that hold a message of round-trip i with this role
MessagesOf(i, role) ==
    {m \in 1..Len(messages) : messages[m].trip = i /\ messages[m].role = role}

\* round-trip i has appended one user message and, once it has ended, one
\* assistant message after it, and none before it has ended
OneUserThenOneAssistant(i) ==
    /\ Cardinality(MessagesOf(i, "user")) = 1
    /\ Cardinality(MessagesOf(i, "assistant")) = (IF trips[i].pc = "done" THEN 1 ELSE 0)
    /\ \A u \in MessagesOf(i, "user"), a \in MessagesOf(i, "assistant") : u < a

\* the transcript alternates user, assistant, starting with user
Alternates ==
    \A m \in 1..Len(messages) :
        messages[m].role = (IF m % 2 = 1 THEN "user" ELSE "assistant")

\* C21: every handleSendMessage round-trip appends exactly one user message and
\* then, on every path (plain reply, offer summary, lookup failure, completion
\* failure), exactly one assistant message; so whenever no round-trip is in
\* flight the transcript strictly alternates user, assistant, and loading is
\* false.
C21_TranscriptAlternates ==
    /\ \A i \in 1..Len(trips) : OneUserThenOneAssistant(i)
    /\ InFlight = {} => (Alternates /\ ~loading)

----------------------------------------------------------------------------
(* AIChat: the required fields of the lookup request (C22) *)

\* a field of the request is a non-empty string
NonEmptyString(f) == f.t = "string" /\ f.v # ""

\* C22: the lookup request the chat builds carries a non-empty origin,
\* destination and departureDate whatever slots the completion service
\* returned: an absent or empty origin or destination is replaced by 'Glasgow'
\* or 'Chennai', an absent or empty departure date (also the empty first part
\* of a range) by '2025-09-19'; so the test of line 12 of the route finds
\* nothing missing and no answer to the request has status 400.
C22_RequiredFieldsNeverMissing ==
    requestPc = "built" =>
        /\ NonEmptyString(searchRequest.origin)
        /\ NonEmptyString(searchRequest.destination)
        /\ searchRequest.departureDate # << >>
        /\ SlotAbsent(slots.origin) => searchRequest.origin = Glasgow
        /\ SlotAbsent(slots.destination) => searchRequest.destination = Chennai
        /\ (slots.dates.t = Absent \/ slots.dates.chars = << >>) =>
              searchRequest.departureDate = FallbackDeparture
        /\ ~RequiredMissing(searchRequest)
        /\ \A r \in LookupReplies(searchRequest) : r.status # 400

\* C22 witness: a request was built from an empty origin, no destination and a
\* range whose first part is empty; it carries the three fallbacks
C22_Witness ==
    /\ requestPc = "built"
    /\ slots.origin = Field("string", "")
    /\ slots.destination = NoField
    /\ slots.dates = DatesSlot(HyphenOct2)
    /\ searchRequest.origin = Glasgow
    /\ searchRequest.destination = Chennai
    /\ searchRequest.departureDate = FallbackDeparture

====
